---- MODULE Spec2Model ----
(***************************************************************************)
(* A model of wildcard-domain-finder-plus (src/app.js): the candidate      *)
(* generators, the resume cache and the concurrency-bounded scheduling     *)
(* loop of run(), with the interactive pause / resume / quit keys.         *)
(*                                                                         *)
(* Strings are sequences of one-character strings, so that the generators, *)
(* the domain syntax check and the filters are computed as the code        *)
(* computes them.  Node runs the program on one event loop: everything     *)
(* between two macrotasks is one step.  The steps are the synchronous      *)
(* start of run() up to its first sleep, one iteration of the main loop    *)
(* after a sleep, the settling of one probe, one key press, and the end of *)
(* run() after Promise.all.                                                *)
(***************************************************************************)
EXTENDS Integers, Sequences, FiniteSets, TLC

VARIABLES
    opts,              \* the run configuration returned by parseArgs
    paused,            \* app.js:42
    quitting,          \* app.js:43
    pc,                \* where run() is: "start", "loop", "drain", "done"
    iterator,          \* what the generator has still to yield
    cache,             \* the in-memory Map of run(), domain -> record
    cacheFile,         \* the lines of the JSONL cache file on disk
    availableResults,  \* app.js:472
    tasks,             \* app.js:473, each with the outcome it settled to
    active,            \* app.js:474
    checked,           \* app.js:475
    totalCandidates,   \* app.js:476
    progressWrites,    \* how often the progress line of app.js:522 was written
    run,               \* which run of the program this is, and how the last ended
    argv,              \* the command line, where a run parses it (else NoArgv)
    gen,               \* one call of expandWildcardPattern, consumed label by label
    race               \* one call of checkDomain: the DNS query, the timer, the result

\* The generator call and the probe call that are examined on their own.
calls == <<gen, race>>

vars == <<opts, paused, quitting, pc, iterator, cache, cacheFile,
          availableResults, tasks, active, checked, totalCandidates,
          progressWrites, run, argv, gen, race>>

----------------------------------------------------------------------------
(* Bounds of the model *)

\* The longest pattern expandWildcardPattern is called with on its own.
MaxPatternLen == 3

\* The most lines of a cache file that is there when the program starts.
MaxLines == 3

\* The largest --max-length generateAllDomainsForRegex is called with on
\* its own.
MaxLabelLen == 3

\* How many characters of CHARSET the model keeps.
AlphabetSize == 2

\* The largest concurrency ceiling a run is configured with.
MaxConcurrency == 2

----------------------------------------------------------------------------
(* Strings *)

\* A subsequence of CHARSET ('a'..'z' then '0'..'9') in CHARSET's order: a
\* letter, then digits, so that both kinds of label character occur.
CharsetSample == <<"a", "0", "1", "2">>

CHARSET == SubSeq(CharsetSample, 1, AlphabetSize)

\* The character classes of DOMAIN_REGEX over the characters the model uses.
Letters == {"a", "c", "o", "A", "C", "O"}
Digits == {"0", "1", "2"}

toLowerCase(s) ==
    [i \in 1..Len(s) |->
        CASE s[i] = "A" -> "a"
          [] s[i] = "C" -> "c"
          [] s[i] = "O" -> "o"
          [] OTHER -> s[i]]

startsWith(s, p) == Len(p) <= Len(s) /\ SubSeq(s, 1, Len(p)) = p

endsWith(s, p) ==
    Len(p) <= Len(s) /\ SubSeq(s, Len(s) - Len(p) + 1, Len(s)) = p

RECURSIVE split(_)
\* s.split('.'): the parts between the dots, empty parts included.
split(s) ==
    IF \A i \in 1..Len(s) : s[i] # "."
    THEN <<s>>
    ELSE LET k == CHOOSE i \in 1..Len(s) :
                      s[i] = "." /\ \A j \in 1..(i - 1) : s[j] # "."
         IN  <<SubSeq(s, 1, k - 1)>> \o split(SubSeq(s, k + 1, Len(s)))

RECURSIVE join(_)
\* parts.join('.')
join(parts) ==
    IF Len(parts) = 0 THEN <<>>
    ELSE IF Len(parts) = 1 THEN parts[1]
    ELSE parts[1] \o <<".">> \o join(Tail(parts))

Range(s) == {s[i] : i \in 1..Len(s)}

RECURSIVE splitOn(_, _)
\* s.split(sep) for a one-character sep
splitOn(s, sep) ==
    IF \A i \in 1..Len(s) : s[i] # sep
    THEN <<s>>
    ELSE LET k == CHOOSE i \in 1..Len(s) :
                      s[i] = sep /\ \A j \in 1..(i - 1) : s[j] # sep
         IN  <<SubSeq(s, 1, k - 1)>> \o splitOn(SubSeq(s, k + 1, Len(s)), sep)

RECURSIVE trim(_)
trim(s) ==
    IF Len(s) = 0 THEN s
    ELSE IF Head(s) = " " THEN trim(Tail(s))
    ELSE IF s[Len(s)] = " " THEN trim(SubSeq(s, 1, Len(s) - 1))
    ELSE s

----------------------------------------------------------------------------
(* Domain syntax: DOMAIN_REGEX, app.js:40 *)

\* [A-Za-z0-9](?:[A-Za-z0-9-]{0,61}[A-Za-z0-9])?
IsLabel(l) ==
    /\ Len(l) >= 1 /\ Len(l) <= 63
    /\ l[1] \in Letters \cup Digits
    /\ l[Len(l)] \in Letters \cup Digits
    /\ \A i \in 1..Len(l) : l[i] \in Letters \cup Digits \cup {"-"}

\* [A-Za-z]{2,63}
IsTopLabel(l) ==
    /\ Len(l) >= 2 /\ Len(l) <= 63
    /\ \A i \in 1..Len(l) : l[i] \in Letters

\* ^(?=.{1,253}$)(?!.*\.\.)(label\.)+top$
isValidDomain(domain) ==
    LET parts == split(domain)
    IN  /\ Len(domain) >= 1 /\ Len(domain) <= 253
        /\ Len(parts) >= 2
        /\ \A i \in 1..(Len(parts) - 1) : IsLabel(parts[i])
        /\ IsTopLabel(parts[Len(parts)])

----------------------------------------------------------------------------
(* Filters, app.js:230-255 *)

\* The [name, tld] pair of app.js:233-238 and 499-504.
NameOf(domain) ==
    LET parts == split(domain)
    IN  toLowerCase(join(SubSeq(parts, 1, Len(parts) - 1)))

TldOf(domain) ==
    LET parts == split(domain)
    IN  toLowerCase(parts[Len(parts)])

PassesFilter(domain, f) ==
    CASE f.type = "tld"       -> TldOf(domain) \in Range(f.list)
      [] f.type = "lengthMax" -> ~(Len(NameOf(domain)) > f.value)
      [] f.type = "lengthMin" -> ~(Len(NameOf(domain)) < f.value)
      [] f.type = "starts"    -> startsWith(NameOf(domain), f.value)
      [] f.type = "ends"      -> endsWith(NameOf(domain), f.value)

passesFilters(domain, filters) ==
    \A i \in 1..Len(filters) : PassesFilter(domain, filters[i])

----------------------------------------------------------------------------
(* Generators, app.js:292-340 *)

RECURSIVE helper(_, _, _)
\* helper(index, prefix) of expandWildcardPattern, with index counted from 1.
helper(pattern, index, prefix) ==
    IF index = Len(pattern) + 1
    THEN <<prefix>>
    ELSE IF pattern[index] = "*"
    THEN LET RECURSIVE each(_)
             each(k) ==
                 IF k > Len(CHARSET) THEN <<>>
                 ELSE helper(pattern, index + 1, Append(prefix, CHARSET[k]))
                      \o each(k + 1)
         IN  each(1)
    ELSE helper(pattern, index + 1, Append(prefix, pattern[index]))

\* An expansion that copies the first character and expands from the second.
expandWildcardPatternFromSecond(pattern) ==
    IF Len(pattern) = 0 THEN <<>>
    ELSE helper(pattern, 2, <<pattern[1]>>)

expandWildcardPattern(pattern) == helper(pattern, 1, <<>>)

RECURSIVE WithTlds(_, _)
\* for (const base of bases) for (const tld of tlds) yield base + tld
WithTlds(bases, tlds) ==
    IF Len(bases) = 0 THEN <<>>
    ELSE [i \in 1..Len(tlds) |-> Head(bases) \o tlds[i]]
         \o WithTlds(Tail(bases), tlds)

expandPatternWithTlds(pattern, tlds) ==
    IF endsWith(pattern, <<".", "*">>)
    THEN WithTlds(expandWildcardPattern(SubSeq(pattern, 1, Len(pattern) - 2)),
                  tlds)
    ELSE expandWildcardPattern(pattern)

RECURSIVE build(_, _, _)
\* build(prefix, depth) of generateAllDomainsForRegex
build(prefix, depth, tlds) ==
    IF depth = 0
    THEN [i \in 1..Len(tlds) |-> prefix \o <<".">> \o tlds[i]]
    ELSE LET RECURSIVE each(_)
             each(k) ==
                 IF k > Len(CHARSET) THEN <<>>
                 ELSE build(Append(prefix, CHARSET[k]), depth - 1, tlds)
                      \o each(k + 1)
         IN  each(1)

RECURSIVE generateAllDomainsBelowMax(_, _, _)
\* A loop that stops one length short: len < maxLength.
generateAllDomainsBelowMax(len, maxLength, tlds) ==
    IF len >= maxLength THEN <<>>
    ELSE build(<<>>, len, tlds)
         \o generateAllDomainsBelowMax(len + 1, maxLength, tlds)

RECURSIVE generateAllDomainsForRegex(_, _, _)
\* The lengths len, len + 1, ..., maxLength of the for loop of app.js:337.
generateAllDomainsForRegex(len, maxLength, tlds) ==
    IF len > maxLength THEN <<>>
    ELSE build(<<>>, len, tlds)
         \o generateAllDomainsForRegex(len + 1, maxLength, tlds)

----------------------------------------------------------------------------
(* The run configurations the model draws from *)

co == <<"c", "o">>
ca == <<"c", "a">>

NoPattern == <<>>
NoRegex == [kind |-> "null"]

\* -d "*.c*" and -d "*.*"
Patterns == {<<"*", ".", "c", "*">>, <<"*", ".", "*">>}

\* A compiled regex ^[a-z]{n}\.tld$, as the README's ^[a-z]{3}\.com$: here
\* -r "^[a-z]{1}\.co$"
Regexes == {[kind |-> "regex", n |-> 1, tld |-> co]}

\* No -f, and -f starts:a
FilterLists == {<<>>, <<[type |-> "starts", value |-> <<"a">>]>>}

\* -t co,ca with a pattern that ends in ".*", else -t co (a pattern that
\* carries its own TLD never reads tlds).
TldsFor(p) == IF endsWith(p, <<".", "*">>) THEN <<co, ca>> ELSE <<co>>

PatternConfigs ==
    {[pattern |-> p, regex |-> NoRegex, tlds |-> TldsFor(p), filters |-> f,
      concurrency |-> c, resume |-> FALSE, useCache |-> u, maxLength |-> 4] :
        p \in Patterns, f \in FilterLists, c \in 1..MaxConcurrency,
        u \in BOOLEAN}

RegexConfigs ==
    {[pattern |-> NoPattern, regex |-> r, tlds |-> <<co>>, filters |-> f,
      concurrency |-> c, resume |-> FALSE, useCache |-> u, maxLength |-> 1] :
        r \in Regexes, f \in FilterLists, c \in 1..MaxConcurrency,
        u \in BOOLEAN}

Configs == PatternConfigs \cup RegexConfigs

\* v.split(',').map(s => s.trim().toLowerCase()).filter(Boolean) of -t v
parseTlds(v) ==
    LET parts == splitOn(v, ",")
        clean == [i \in 1..Len(parts) |-> toLowerCase(trim(parts[i]))]
    IN  SelectSeq(clean, LAMBDA t : t # <<>>)

\* -t co, -t co,co and -t "Co, co"
TldArgs == {<<"c", "o">>,
            <<"c", "o", ",", "c", "o">>,
            <<"C", "o", ",", " ", "c", "o">>}

\* Regex mode with -t, -c, -R or --no-resume, and --no-cache or not.
ArgsConfigs ==
    UNION {{[pattern |-> NoPattern, regex |-> r, tlds |-> parseTlds(v),
             filters |-> <<>>, concurrency |-> c, resume |-> rs,
             useCache |-> u, maxLength |-> 1] :
                c \in 1..MaxConcurrency, rs \in BOOLEAN, u \in BOOLEAN} :
           r \in Regexes, v \in TldArgs}

\* One run configuration with the cache on, for runs over a cache file that
\* is already there.
CacheConfigs ==
    {[pattern |-> NoPattern, regex |-> r, tlds |-> <<co>>, filters |-> <<>>,
      concurrency |-> 1, resume |-> FALSE, useCache |-> TRUE,
      maxLength |-> 1] : r \in Regexes}

\* The defaults of app.js:88, 89 and 93.
DefaultConcurrency == 10
DefaultTimeout == 5000
DefaultMaxLength == 4

DigitValue(ch) == CASE ch = "0" -> 0 [] ch = "1" -> 1 [] ch = "2" -> 2

RECURSIVE LeadingDigits(_)
LeadingDigits(s) ==
    IF Len(s) = 0 \/ Head(s) \notin Digits THEN <<>>
    ELSE <<Head(s)>> \o LeadingDigits(Tail(s))

RECURSIVE Decimal(_, _)
Decimal(ds, acc) ==
    IF Len(ds) = 0 THEN acc
    ELSE Decimal(Tail(ds), 10 * acc + DigitValue(Head(ds)))

\* parseInt(s, 10): white space, a sign, then the digits the text begins
\* with; NaN when it begins with none.
parseInt(s) ==
    LET t == trim(s)
        signed == Len(t) > 0 /\ Head(t) \in {"-", "+"}
        ds == LeadingDigits(IF signed THEN Tail(t) ELSE t)
    IN  IF Len(ds) = 0 THEN [nan |-> TRUE, value |-> 0]
        ELSE [nan |-> FALSE,
              value |-> IF signed /\ Head(t) = "-"
                        THEN 0 - Decimal(ds, 0) ELSE Decimal(ds, 0)]

\* parseInt(args[++i], 10) || default, for a flag that may not be given
NumberOr(flags, flag, default) ==
    IF flag \notin DOMAIN flags THEN default
    ELSE IF parseInt(flags[flag]).nan \/ parseInt(flags[flag]).value = 0
    THEN default
    ELSE parseInt(flags[flag]).value

\* -r "^[a-z]\.co$" and -r "[", as the characters of the source
GoodSource == <<"^", "[", "a", "-", "z", "]", "\\", ".", "c", "o", "$">>
BadSource == <<"[">>

\* new RegExp(source) throws on a character class that is not closed.
RegExp(source) ==
    IF \E i \in 1..Len(source) :
           source[i] = "[" /\ \A j \in (i + 1)..Len(source) : source[j] # "]"
    THEN [kind |-> "invalid"]
    ELSE [kind |-> "regex", n |-> 1, tld |-> co]

\* parseArgs, for the flags -d, -r, -c, -T and --max-length, and the regex
\* that run() makes of -r (app.js:446-454).
parseArgs(flags) ==
    [pattern |-> IF "d" \in DOMAIN flags THEN flags.d ELSE NoPattern,
     regex |-> IF "r" \in DOMAIN flags THEN RegExp(flags.r) ELSE NoRegex,
     tlds |-> <<co>>,
     filters |-> <<>>,
     concurrency |-> NumberOr(flags, "c", DefaultConcurrency),
     timeout |-> NumberOr(flags, "T", DefaultTimeout),
     resume |-> FALSE,
     useCache |-> TRUE,
     maxLength |-> NumberOr(flags, "maxLength", DefaultMaxLength)]

\* A command line without flags; it also stands for the command line where
\* it is not looked at and opts is drawn as parseArgs returns it.
NoArgv == [k \in {} |-> k]

\* Command lines: none of -d and -r; -d "*.c*" with each of -c, -T and
\* --max-length left out, given as a number, or given as "a"; and
\* -r with -c 1 --max-length 1, the regex well formed or not.
ArgvSample ==
    {NoArgv} \cup
    {[d |-> <<"*", ".", "c", "*">>]} \cup
    {[d |-> <<"*", ".", "c", "*">>, c |-> v] : v \in {<<"1">>, <<"a">>}} \cup
    {[d |-> <<"*", ".", "c", "*">>, T |-> v] : v \in {<<"2">>, <<"a">>}} \cup
    {[d |-> <<"*", ".", "c", "*">>, maxLength |-> v] : v \in {<<"1">>, <<"a">>}} \cup
    {[r |-> src, c |-> <<"1">>, maxLength |-> <<"1">>] :
        src \in {GoodSource, BadSource}}

\* The configuration of a program that is not run.
IdleOpts ==
    [pattern |-> NoPattern, regex |-> NoRegex, tlds |-> <<co>>,
     filters |-> <<>>, concurrency |-> 1, resume |-> FALSE,
     useCache |-> FALSE, maxLength |-> 4]

\* The iterator of app.js:468-470.
Stream(o) ==
    IF o.regex.kind = "regex"
    THEN generateAllDomainsForRegex(1, o.maxLength, o.tlds)
    ELSE expandPatternWithTlds(o.pattern, o.tlds)

----------------------------------------------------------------------------
(* DNS probe and cache, app.js:344-384 *)

\* How the race of dns.resolveAny against the timer ends.
ProbeEvents == {"resolved", "ENOTFOUND", "ENODATA", "TIMEOUT", "ESERVFAIL"}

\* A timeout recognised by err.code, which the timer's Error does not have.
checkDomainTimeoutByCode(domain, event) ==
    CASE event = "resolved" ->
            [domain |-> domain, available |-> "false", error |-> "null"]
      [] event \in {"ENOTFOUND", "ENODATA"} ->
            [domain |-> domain, available |-> "true", error |-> "null"]
      [] OTHER ->
            [domain |-> domain, available |-> "null", error |-> event]

\* What checkDomain returns when the race of app.js:350-353 is settled by
\* event: the DNS answer, a DNS error code, or the timer's Error('TIMEOUT').
checkDomain(domain, event) ==
    CASE event = "resolved" ->
            [domain |-> domain, available |-> "false", error |-> "null"]
      [] event \in {"ENOTFOUND", "ENODATA"} ->
            [domain |-> domain, available |-> "true", error |-> "null"]
      [] event = "TIMEOUT" ->
            [domain |-> domain, available |-> "null", error |-> "timeout"]
      [] OTHER ->
            [domain |-> domain, available |-> "null", error |-> event]

\* The record of app.js:506-513; the model has no clock, so no checkedAt.
Record(domain, res) ==
    [domain |-> domain, name |-> NameOf(domain), tld |-> TldOf(domain),
     available |-> res.available, error |-> res.error]

\* A line of the cache file is the text of a JSON value (kind "json", with
\* the value JSON.parse gives for it), white space only (kind "blank"), or
\* any other text (kind "text"), on which JSON.parse throws.
stringify(obj) == [kind |-> "json", obj |-> obj]

BlankLine == [kind |-> "blank"]
BadLine == [kind |-> "text"]

\* The cache file on disk: whether it exists, and its lines.
NoFile == [exists |-> FALSE, lines |-> <<>>]

existsSync(file) == file.exists

MapSet(map, key, value) ==
    [k \in DOMAIN map \cup {key} |-> IF k = key THEN value ELSE map[k]]

EmptyMap == [k \in {} |-> k]

\* if (obj.domain): the parsed value has a domain, and it is not ''.
HasDomain(obj) == "domain" \in DOMAIN obj /\ obj.domain # <<>>

\* A loader that keeps the first record of a domain.
RECURSIVE loadCacheLinesKeepFirst(_, _)
loadCacheLinesKeepFirst(lines, map) ==
    IF Len(lines) = 0 THEN map
    ELSE IF Head(lines).kind = "blank" THEN loadCacheLinesKeepFirst(Tail(lines), map)
    ELSE IF Head(lines).kind # "json" THEN loadCacheLinesKeepFirst(Tail(lines), map)
    ELSE IF HasDomain(Head(lines).obj) /\ Head(lines).obj.domain \notin DOMAIN map
    THEN loadCacheLinesKeepFirst(Tail(lines),
             MapSet(map, Head(lines).obj.domain, Head(lines).obj))
    ELSE loadCacheLinesKeepFirst(Tail(lines), map)

RECURSIVE loadCacheLines(_, _)
\* The for loop of app.js:370-378 over the lines that are left.
loadCacheLines(lines, map) ==
    IF Len(lines) = 0 THEN map
    ELSE IF Head(lines).kind = "blank"           \* if (!line.trim()) continue
    THEN loadCacheLines(Tail(lines), map)
    ELSE IF Head(lines).kind # "json"            \* JSON.parse throws: catch {}
    THEN loadCacheLines(Tail(lines), map)
    ELSE IF HasDomain(Head(lines).obj)
    THEN loadCacheLines(Tail(lines),
                        MapSet(map, Head(lines).obj.domain, Head(lines).obj))
    ELSE loadCacheLines(Tail(lines), map)

loadCache(file) ==
    IF ~existsSync(file) THEN EmptyMap
    ELSE loadCacheLines(file.lines, EmptyMap)

\* A write that replaces the file: writeFileSync for appendFileSync.
appendToCacheOverwrites(file, obj) ==
    [exists |-> TRUE, lines |-> <<stringify(obj)>>]

\* fs.appendFileSync creates the file when it is missing.
appendToCache(file, obj) ==
    [exists |-> TRUE, lines |-> Append(file.lines, stringify(obj))]

----------------------------------------------------------------------------
(* scheduleNext and the main loop, app.js:479-543 *)

\* A slip in the slot test: one probe too many.
HasFreeSlotOffByOne(act, ceiling) == act <= ceiling

\* The loop condition's slot test of app.js:481.
HasFreeSlot(act, ceiling) == act < ceiling

\* A scheduler that forgets to consult the cache.
ShouldDispatchUncached(domain, o, map) ==
    /\ isValidDomain(domain)
    /\ passesFilters(domain, o.filters)

\* app.js:487-492: the three tests a pulled candidate passes to be probed.
ShouldDispatch(domain, o, map) ==
    /\ isValidDomain(domain)
    /\ passesFilters(domain, o.filters)
    /\ ~(o.useCache /\ domain \in DOMAIN map)

NewTask(domain) == [domain |-> domain, settled |-> FALSE, available |-> "pending"]

RECURSIVE WhileLoop(_, _, _, _, _, _, _)
\* The while loop of app.js:481-531 from the generator iter, the count act,
\* the counter total and the task list tsks; paused and the cache do not
\* change inside it.
WhileLoop(iter, act, total, tsks, o, map, isPaused) ==
    IF isPaused \/ ~HasFreeSlot(act, o.concurrency) \/ Len(iter) = 0
    THEN [iterator |-> iter, active |-> act, totalCandidates |-> total,
          tasks |-> tsks]
    ELSE IF ShouldDispatch(Head(iter), o, map)
    THEN WhileLoop(Tail(iter), act + 1, total + 1,
                   Append(tsks, NewTask(Head(iter))), o, map, isPaused)
    ELSE WhileLoop(Tail(iter), act, total + 1, tsks, o, map, isPaused)

scheduleNext(s, o, map, isPaused, isQuitting) ==
    IF isQuitting THEN s
    ELSE WhileLoop(s.iterator, s.active, s.totalCandidates, s.tasks,
                   o, map, isPaused)

\* A main loop that does not test the quit flag.
BreaksNever(isQuitting) == FALSE

\* app.js:535
BreaksOnQuit(isQuitting) == isQuitting

Sched == [iterator |-> iterator, active |-> active,
          totalCandidates |-> totalCandidates, tasks |-> tasks]

\* The scheduler's variables become those of s, and the loop goes on to its
\* sleep or, having broken out, to Promise.all.
SetSched(s, brk) ==
    /\ iterator' = s.iterator
    /\ active' = s.active
    /\ totalCandidates' = s.totalCandidates
    /\ tasks' = s.tasks
    /\ pc' = IF brk THEN "drain" ELSE "loop"

\* An iteration whose exhaustion test calls iterator.next() before it looks
\* at active.
LoopIterationTestsFirst(s, o, map, isPaused, isQuitting) ==
    IF isQuitting THEN SetSched(s, TRUE)
    ELSE \E s1 \in {IF ~isPaused
                     THEN scheduleNext(s, o, map, isPaused, isQuitting)
                     ELSE s} :
            IF Len(s1.iterator) = 0
            THEN SetSched(s1, s1.active = 0)
            ELSE SetSched([s1 EXCEPT !.iterator = Tail(@)], FALSE)

\* One iteration of while (true), app.js:534-543, from the scheduler's
\* variables s, up to the break or the sleep.
LoopIteration(s, o, map, isPaused, isQuitting) ==
    IF BreaksOnQuit(isQuitting) THEN SetSched(s, TRUE)
    ELSE \E s1 \in {IF ~isPaused
                     THEN scheduleNext(s, o, map, isPaused, isQuitting)
                     ELSE s} :
            IF s1.active = 0
            THEN \* iterator.next().done is evaluated, and advances the generator
                 IF Len(s1.iterator) = 0
                 THEN SetSched(s1, TRUE)
                 ELSE SetSched([s1 EXCEPT !.iterator = Tail(@)], FALSE)
            ELSE SetSched(s1, FALSE)

----------------------------------------------------------------------------
(* The state machine *)

\* The program has just been started: app.js:42-43, and nothing of run()
\* has been executed.
Fresh ==
    /\ paused = FALSE
    /\ quitting = FALSE
    /\ pc = "start"
    /\ iterator = <<>>
    /\ cache = EmptyMap
    /\ availableResults = <<>>
    /\ tasks = <<>>
    /\ active = 0
    /\ checked = 0
    /\ totalCandidates = 0
    /\ progressWrites = 0
    /\ run = [n |-> "first", prevQuit |-> FALSE]

\* No generator call and no probe call is examined on its own.
NoGen == [state |-> "none"]
NoRace == [state |-> "none"]

Init ==
    /\ opts \in Configs
    /\ argv = NoArgv
    /\ cacheFile = NoFile
    /\ Fresh
    /\ gen = NoGen
    /\ race = NoRace

\* run() from its first line to the first sleep: the cache is loaded, the
\* generator is created and the first iteration of the loop is made.
Start ==
    /\ pc = "start"
    /\ IF \/ opts.pattern = NoPattern /\ opts.regex.kind = "null"
          \/ opts.regex.kind = "invalid"
       THEN \* process.exit(1) of app.js:433-436 and 448-453
            /\ pc' = "exit1"
            /\ UNCHANGED <<iterator, cache, tasks, active, totalCandidates>>
       ELSE LET map == IF opts.useCache THEN loadCache(cacheFile) ELSE EmptyMap
                s0 == [iterator |-> Stream(opts), active |-> 0,
                       totalCandidates |-> 0, tasks |-> <<>>]
            IN  /\ cache' = map
                /\ LoopIteration(s0, opts, map, paused, quitting)
    /\ UNCHANGED <<opts, paused, quitting, cacheFile, availableResults,
                   checked, progressWrites, run, argv, calls>>

\* The loop wakes from sleep(100) and makes one more iteration.
MainLoop ==
    /\ pc = "loop"
    /\ LoopIteration(Sched, opts, cache, paused, quitting)
    /\ UNCHANGED <<opts, paused, quitting, cache, cacheFile,
                   availableResults, checked, progressWrites, run, argv, calls>>

\* A cache that records only definite answers.
CacheAfterDefinite(record) ==
    IF opts.useCache /\ record.available # "null"
    THEN MapSet(cache, record.domain, record)
    ELSE cache

\* app.js:515-518
CacheAfter(record) ==
    IF opts.useCache THEN MapSet(cache, record.domain, record) ELSE cache

FileAfter(record) ==
    IF opts.useCache THEN appendToCache(cacheFile, record) ELSE cacheFile

\* A completion that drops its result when the run is paused.
ResultsAfterUnlessPaused(record) ==
    IF record.available = "true" /\ ~paused
    THEN Append(availableResults, record)
    ELSE availableResults

\* A truthiness slip: everything but "taken" is reported as available.
ResultsAfterNotTaken(record) ==
    IF record.available # "false"
    THEN Append(availableResults, record)
    ELSE availableResults

\* A completion that pushes an available record twice.
ResultsAfterTwice(record) ==
    IF record.available = "true"
    THEN Append(Append(availableResults, record), record)
    ELSE availableResults

\* app.js:520-522
ResultsAfter(record) ==
    IF record.available = "true"
    THEN Append(availableResults, record)
    ELSE availableResults

\* A completion that writes the progress line whatever the outcome.
ProgressAfterAlways(res) == progressWrites + 1

\* app.js:520-525: the progress line is written inside the if.
ProgressAfter(res) ==
    IF res.available = "true" THEN progressWrites + 1 ELSE progressWrites

\* A completion that keeps its slot.
ReleaseSlotNever(act) == act

\* app.js:526-528
ReleaseSlot(act) == act - 1

\* The probe of task i settles: app.js:496-528.
Complete(i, event) ==
    /\ pc \in {"loop", "drain"}
    /\ i \in 1..Len(tasks)
    /\ ~tasks[i].settled
    /\ \E res \in {checkDomain(tasks[i].domain, event)} :
       \E record \in {Record(tasks[i].domain, res)} :
           /\ checked' = checked + 1
           /\ cache' = CacheAfter(record)
           /\ cacheFile' = FileAfter(record)
           /\ availableResults' = ResultsAfter(record)
           /\ progressWrites' = ProgressAfter(res)
           /\ tasks' = [tasks EXCEPT ![i] = [@ EXCEPT !.settled = TRUE,
                                                     !.available = res.available]]
           /\ active' = ReleaseSlot(active)
    /\ UNCHANGED <<opts, paused, quitting, pc, iterator, totalCandidates, run,
                   argv, calls>>

Settle == \E i \in 1..Len(tasks), event \in ProbeEvents : Complete(i, event)

\* The keypress handler of app.js:57-71.
KeyP ==
    /\ pc \in {"loop", "drain"}
    /\ paused' = TRUE
    /\ UNCHANGED <<opts, quitting, pc, iterator, cache, cacheFile,
                   availableResults, tasks, active, checked, totalCandidates,
                   progressWrites, run, argv, calls>>

KeyR ==
    /\ pc \in {"loop", "drain"}
    /\ paused' = FALSE
    /\ UNCHANGED <<opts, quitting, pc, iterator, cache, cacheFile,
                   availableResults, tasks, active, checked, totalCandidates,
                   progressWrites, run, argv, calls>>

KeyQ ==
    /\ pc \in {"loop", "drain"}
    /\ quitting' = TRUE
    /\ UNCHANGED <<opts, paused, pc, iterator, cache, cacheFile,
                   availableResults, tasks, active, checked, totalCandidates,
                   progressWrites, run, argv, calls>>

\* A run that ends without awaiting its tasks.
FinishWithoutDrain ==
    /\ pc = "drain"
    /\ pc' = "done"
    /\ UNCHANGED <<opts, paused, quitting, iterator, cache, cacheFile,
                   availableResults, tasks, active, checked, totalCandidates,
                   progressWrites, run, argv, calls>>

\* await Promise.all(tasks) returns, and run() ends: app.js:545-552.
Finish ==
    /\ pc = "drain"
    /\ \A i \in 1..Len(tasks) : tasks[i].settled
    /\ pc' = "done"
    /\ UNCHANGED <<opts, paused, quitting, iterator, cache, cacheFile,
                   availableResults, tasks, active, checked, totalCandidates,
                   progressWrites, run, argv, calls>>

\* The program is started again with the same arguments and cache file.
Restart ==
    /\ pc = "done"
    /\ run.n = "first"
    /\ run' = [n |-> "second", prevQuit |-> quitting]
    /\ pc' = "start"
    /\ paused' = FALSE
    /\ quitting' = FALSE
    /\ iterator' = <<>>
    /\ cache' = EmptyMap
    /\ availableResults' = <<>>
    /\ tasks' = <<>>
    /\ active' = 0
    /\ checked' = 0
    /\ totalCandidates' = 0
    /\ progressWrites' = 0
    /\ UNCHANGED <<opts, cacheFile, argv, calls>>

Next ==
    \/ Start
    \/ MainLoop
    \/ Settle
    \/ KeyP
    \/ KeyR
    \/ KeyQ
    \/ Finish
    \/ Restart

Spec == Init /\ [][Next]_vars

\* What the event loop does by itself once run() is under way: the timer of
\* sleep(100) fires, a probe settles (by its own timer at the latest), a
\* resolved Promise.all resumes run().  Starting the program and pressing
\* keys are up to the user.
Progress == MainLoop \/ Settle \/ Finish

\* The event loop does not stop while it has something to do.
FairSpec == Spec /\ WF_vars(Progress)

----------------------------------------------------------------------------
(* Runs from other command lines, and from a cache file that is there *)

\* The runs of the command lines of ArgsConfigs.
ArgsInit ==
    /\ opts \in ArgsConfigs
    /\ argv = NoArgv
    /\ cacheFile = NoFile
    /\ Fresh
    /\ gen = NoGen
    /\ race = NoRace

ArgsSpec == ArgsInit /\ [][Next]_vars

aco == <<"a", ".", "c", "o">>

\* Lines a cache file may hold: a.co as taken and as available, white
\* space, text that is no JSON, and a JSON object without a domain.
LineSample ==
    {stringify(Record(aco, checkDomain(aco, "resolved"))),
     stringify(Record(aco, checkDomain(aco, "ENOTFOUND"))),
     BlankLine,
     BadLine,
     stringify([name |-> <<"a">>])}

\* No file, or a file of at most MaxLines lines.
CacheFiles ==
    {NoFile} \cup
    {[exists |-> TRUE, lines |-> l] :
        l \in UNION {[1..n -> LineSample] : n \in 0..MaxLines}}

CacheInit ==
    /\ opts \in CacheConfigs
    /\ argv = NoArgv
    /\ cacheFile \in CacheFiles
    /\ Fresh
    /\ gen = NoGen
    /\ race = NoRace

CacheSpec == CacheInit /\ [][Next]_vars

\* The runs of the command lines of ArgvSample.
ConfigInit ==
    /\ argv \in ArgvSample
    /\ opts = parseArgs(argv)
    /\ cacheFile = NoFile
    /\ Fresh
    /\ gen = NoGen
    /\ race = NoRace

ConfigSpec == ConfigInit /\ [][Next]_vars

----------------------------------------------------------------------------
(* expandWildcardPattern on its own, app.js:292-309 *)

\* The program is not run.
Idle ==
    /\ opts = IdleOpts
    /\ argv = NoArgv
    /\ cacheFile = NoFile
    /\ Fresh

main == <<opts, paused, quitting, pc, iterator, cache, cacheFile,
          availableResults, tasks, active, checked, totalCandidates,
          progressWrites, run, argv>>

\* Patterns of wildcards, a literal and a dot, the empty pattern included.
GenPatterns == UNION {[1..n -> {"*", "a", "."}] : n \in 0..MaxPatternLen}

GenInit ==
    /\ Idle
    /\ race = NoRace
    /\ gen \in {[state |-> "new", pattern |-> p, rest |-> <<>>,
                  yielded |-> <<>>, first |-> <<>>, pass |-> "first"] :
                    p \in GenPatterns}

\* expandWildcardPattern(pattern) is called: a generator object is made.
GenCall ==
    /\ gen.state = "new"
    /\ gen' = [gen EXCEPT !.state = "running",
                          !.rest = expandWildcardPattern(gen.pattern),
                          !.yielded = <<>>]
    /\ UNCHANGED <<main, race>>

\* next() on the generator yields a label.
GenYield ==
    /\ gen.state = "running"
    /\ gen.rest # <<>>
    /\ gen' = [gen EXCEPT !.rest = Tail(@),
                          !.yielded = Append(@, Head(gen.rest))]
    /\ UNCHANGED <<main, race>>

\* next() on the generator reports done.
GenReturn ==
    /\ gen.state = "running"
    /\ gen.rest = <<>>
    /\ gen' = [gen EXCEPT !.state = "done"]
    /\ UNCHANGED <<main, race>>

\* The same pattern is expanded once more.
GenAgain ==
    /\ gen.state = "done"
    /\ gen.pass = "first"
    /\ gen' = [gen EXCEPT !.state = "new", !.pass = "second",
                          !.first = gen.yielded]
    /\ UNCHANGED <<main, race>>

GenNext ==
    \/ GenCall
    \/ GenYield
    \/ GenReturn
    \/ GenAgain

GenSpec == GenInit /\ [][GenNext]_vars

----------------------------------------------------------------------------
(* generateAllDomainsForRegex on its own, app.js:324-340 *)

\* -t co, -t co,ca and -t ca,co
BruteTlds == {<<co>>, <<co, ca>>, <<ca, co>>}

BruteInit ==
    /\ Idle
    /\ race = NoRace
    /\ gen \in {[state |-> "new", maxLength |-> n, tlds |-> t,
                  rest |-> <<>>, yielded |-> <<>>] :
                    n \in 0..MaxLabelLen, t \in BruteTlds}

\* generateAllDomainsForRegex(maxLength, tlds) is called.
BruteCall ==
    /\ gen.state = "new"
    /\ gen' = [gen EXCEPT
                  !.state = "running",
                  !.rest = generateAllDomainsForRegex(1, gen.maxLength, gen.tlds)]
    /\ UNCHANGED <<main, race>>

\* next() on the generator yields a domain.
BruteYield ==
    /\ gen.state = "running"
    /\ gen.rest # <<>>
    /\ gen' = [gen EXCEPT !.rest = Tail(@),
                          !.yielded = Append(@, Head(gen.rest))]
    /\ UNCHANGED <<main, race>>

\* next() on the generator reports done.
BruteReturn ==
    /\ gen.state = "running"
    /\ gen.rest = <<>>
    /\ gen' = [gen EXCEPT !.state = "done"]
    /\ UNCHANGED <<main, race>>

BruteNext ==
    \/ BruteCall
    \/ BruteYield
    \/ BruteReturn

BruteSpec == BruteInit /\ [][BruteNext]_vars

----------------------------------------------------------------------------
(* checkDomain on its own, app.js:344-364 *)

\* How dns.resolveAny settles, if it does.
DnsEvents == ProbeEvents \ {"TIMEOUT"}

\* The names probed: every label of length 1 and 2 under co and ca.
RaceDomains == Range(generateAllDomainsForRegex(1, 2, <<co, ca>>))

RaceInit ==
    /\ Idle
    /\ gen = NoGen
    /\ race \in {[state |-> "racing", domain |-> d, dns |-> "pending",
                   timer |-> "pending", first |-> "none", returned |-> <<>>] :
                     d \in RaceDomains}

\* dns.resolveAny settles with e.  Promise.race takes it if the timer has
\* not fired, and checkDomain returns; after the timer it has no effect.
RaceDns(e) ==
    /\ race.state = "racing"
    /\ race.dns = "pending"
    /\ race' = IF race.timer = "pending"
               THEN [race EXCEPT !.dns = e, !.first = "dns",
                        !.returned = Append(@, checkDomain(race.domain, e))]
               ELSE [race EXCEPT !.dns = e]
    /\ UNCHANGED <<main, gen>>

RaceDnsSettles == \E e \in DnsEvents : RaceDns(e)

\* The timer of app.js:345-347 fires: it is never cleared, so it fires also
\* after the query has settled, and then has no effect.
RaceTimer ==
    /\ race.state = "racing"
    /\ race.timer = "pending"
    /\ race' = IF race.dns = "pending"
               THEN [race EXCEPT !.timer = "fired", !.first = "timer",
                        !.returned = Append(@, checkDomain(race.domain, "TIMEOUT"))]
               ELSE [race EXCEPT !.timer = "fired"]
    /\ UNCHANGED <<main, gen>>

RaceNext ==
    \/ RaceDnsSettles
    \/ RaceTimer

RaceSpec == RaceInit /\ [][RaceNext]_vars

----------------------------------------------------------------------------
(* What the claims are stated with *)

Unsettled == {i \in 1..Len(tasks) : ~tasks[i].settled}

Probed(d) == \E i \in 1..Len(tasks) : tasks[i].domain = d

\* Whether d matches the compiled regex r = ^[a-z]{n}\.tld$
RegexTest(r, d) ==
    LET parts == split(d)
    IN  /\ Len(parts) = 2
        /\ Len(parts[1]) = r.n
        /\ \A i \in 1..Len(parts[1]) : parts[1][i] \in {"a", "c", "o"}
        /\ parts[2] = r.tld

RECURSIVE DottedPairs(_, _)
\* label + "." + tld for every label, the TLD varying fastest
DottedPairs(labels, tlds) ==
    IF Len(labels) = 0 THEN <<>>
    ELSE [i \in 1..Len(tlds) |-> Head(labels) \o <<".">> \o tlds[i]]
         \o DottedPairs(Tail(labels), tlds)

IsSuffix(s, t) == Len(s) <= Len(t) /\ SubSeq(t, Len(t) - Len(s) + 1, Len(t)) = s

IsPrefix(s, t) == Len(s) <= Len(t) /\ SubSeq(t, 1, Len(s)) = s

\* The candidates of a stream that are valid domains and pass the filters.
Eligible(stream) ==
    SelectSeq(stream, LAMBDA d : isValidDomain(d) /\ passesFilters(d, opts.filters))

RECURSIVE Pow(_, _)
Pow(b, e) == IF e = 0 THEN 1 ELSE b * Pow(b, e - 1)

Wildcards(pattern) == {i \in 1..Len(pattern) : pattern[i] = "*"}

\* The n-th reading (from 0) of an odometer with one wheel per wildcard, the
\* leftmost wheel the slowest, every wheel showing CHARSET in its order.
OdometerLabel(pattern, n) ==
    [i \in 1..Len(pattern) |->
        IF pattern[i] = "*"
        THEN LET right == Cardinality({j \in Wildcards(pattern) : j > i})
             IN  CHARSET[((n \div Pow(Len(CHARSET), right)) % Len(CHARSET)) + 1]
        ELSE pattern[i]]

Odometer(pattern) ==
    [n \in 1..Pow(Len(CHARSET), Cardinality(Wildcards(pattern))) |->
        OdometerLabel(pattern, n - 1)]

\* The lines of a file that parse to an object with a domain.
Parseable(lines) ==
    {k \in 1..Len(lines) : lines[k].kind = "json" /\ HasDomain(lines[k].obj)}

\* For every domain of a parseable line, the object of its last such line.
LastParseable(file) ==
    IF ~file.exists THEN EmptyMap
    ELSE LET lines == file.lines
             at(d) == {k \in Parseable(lines) : lines[k].obj.domain = d}
             last(d) == CHOOSE k \in at(d) : \A j \in at(d) : j <= k
         IN  [d \in {lines[k].obj.domain : k \in Parseable(lines)} |->
                 lines[last(d)].obj]

----------------------------------------------------------------------------
(* C1 *)

\* C1: in every reachable state the in-flight count is at least 0 and at
\* most the configured concurrency ceiling, whatever the order of
\* dispatches, completions and key presses; it counts the unsettled probes.
C1_ActiveWithinCeiling ==
    /\ 0 <= active
    /\ active <= opts.concurrency
    /\ active = Cardinality(Unsettled)

\* The largest ceiling is reached with candidates left in the generator.
C1_Witness ==
    /\ pc = "loop"
    /\ active = opts.concurrency
    /\ opts.concurrency = MaxConcurrency
    /\ Len(iterator) > 0
    /\ ~paused

----------------------------------------------------------------------------
(* C2 *)

\* C2: when a run is done and no quit was signalled, every candidate of the
\* stream that is a valid domain and passes the filters was probed in this
\* run or has an entry in the resume cache.
C2_AllEligibleProbed ==
    (pc = "done" /\ ~quitting) =>
        \A d \in Range(Stream(opts)) :
            (isValidDomain(d) /\ passesFilters(d, opts.filters)) =>
                (Probed(d) \/ (opts.useCache /\ d \in DOMAIN cache))

----------------------------------------------------------------------------
(* C3 *)

----------------------------------------------------------------------------
(* C4 *)

\* C4: when the first run, with caching on, ended without a quit, the
\* second run with the same arguments and cache file dispatches no probe
\* and ends with no available result.
C4_IdempotentRestart ==
    (run.n = "second" /\ opts.useCache /\ ~run.prevQuit) =>
        /\ Len(tasks) = 0
        /\ availableResults = <<>>

----------------------------------------------------------------------------
(* C5 *)

\* C5: once quit is signalled no candidate is pulled from the generator and
\* no probe is dispatched, in-flight probes are awaited, and the run ends
\* as soon as none is in flight, with candidates left or not, paused or not.
C5_QuitStopsDispatch ==
    /\ [][(quitting /\ pc \in {"loop", "drain"}) =>
            /\ iterator' = iterator
            /\ totalCandidates' = totalCandidates
            /\ Len(tasks') = Len(tasks)
            /\ pc' = "done" => active = 0]_vars
    /\ quitting ~> (pc = "done")

\* A run that was paused when quit arrived is done with candidates left.
C5_Witness ==
    /\ pc = "done"
    /\ quitting
    /\ paused
    /\ Len(iterator) > 0
    /\ Len(tasks) > 0

----------------------------------------------------------------------------
(* C6 *)

\* C6: a step taken while paused dispatches no probe; a probe that settles,
\* paused or not, has its record written to the cache and the cache file
\* (with caching on) and appended to the results if it is available; a
\* dispatched probe stays in the task list, settled once it is, until the
\* run is over; and the probes in flight while paused all settle.
C6_PauseKeepsInFlight ==
    /\ [][(paused /\ pc \in {"loop", "drain"}) => Len(tasks') = Len(tasks)]_vars
    /\ [][pc' # "start" =>
            \A i \in 1..Len(tasks) :
                /\ Len(tasks') >= i
                /\ tasks'[i].domain = tasks[i].domain
                /\ tasks[i].settled => tasks'[i] = tasks[i]]_vars
    /\ [][\A i \in Unsettled :
            (Len(tasks') >= i /\ tasks'[i].settled) =>
                LET d == tasks[i].domain
                IN  /\ opts.useCache =>
                        /\ d \in DOMAIN cache'
                        /\ cache'[d].domain = d
                        /\ cache'[d].available = tasks'[i].available
                        /\ cacheFile'.exists
                        /\ cacheFile'.lines =
                               Append(cacheFile.lines, stringify(cache'[d]))
                    /\ ~opts.useCache => (cache' = cache /\ cacheFile' = cacheFile)
                    /\ tasks'[i].available = "true" =>
                        /\ Len(availableResults') = Len(availableResults) + 1
                        /\ availableResults'[Len(availableResults')].domain = d
                        /\ SubSeq(availableResults', 1, Len(availableResults))
                               = availableResults
                    /\ tasks'[i].available # "true" =>
                        availableResults' = availableResults
                    /\ active' = active - 1]_vars
    /\ (paused /\ Unsettled # {}) ~> (Unsettled = {})

\* A probe dispatched before the pause has settled as available while the
\* run was paused, and is in the results and in the cache.
C6_Witness ==
    /\ paused
    /\ pc = "loop"
    /\ opts.useCache
    /\ Len(availableResults) > 0
    /\ Len(cacheFile.lines) > 0
    /\ Unsettled # {}

----------------------------------------------------------------------------
(* C7 *)

\* C7: while the run is paused the generator is not advanced.
C7_PausedStreamUntouched ==
    [][(paused /\ pc = "loop") => iterator' = iterator]_vars

----------------------------------------------------------------------------
(* C8 *)

\* C8: when the run is done the results hold exactly the probes of this run
\* that settled as available, once each: no taken or unknown one, and no
\* candidate that was skipped because the cache had it.
C8_ResultsAreFreshAvailable ==
    pc = "done" =>
        /\ \A k \in 1..Len(availableResults) :
               availableResults[k].available = "true"
        /\ \A d \in Range(Stream(opts)) \cup
                     {availableResults[k].domain : k \in 1..Len(availableResults)} :
               Cardinality({k \in 1..Len(availableResults) :
                               availableResults[k].domain = d})
               = Cardinality({i \in 1..Len(tasks) :
                                 tasks[i].domain = d /\ tasks[i].available = "true"})

\* A done run with an available result and a candidate that the cache holds
\* as available and that this run did not probe.
C8_Witness ==
    /\ pc = "done"
    /\ Len(availableResults) > 0
    /\ \E d \in DOMAIN cache : cache[d].available = "true" /\ ~Probed(d)

----------------------------------------------------------------------------
(* C9 *)

\* C9: in pattern mode with the TLD left open (a pattern ending in ".*"),
\* the generator a started run draws from yields label + "." + tld for every
\* expanded label and every configured TLD, the TLD varying fastest.
C9_PatternYieldsDottedPairs ==
    (opts.regex.kind = "null" /\ endsWith(opts.pattern, <<".", "*">>)
        /\ pc \in {"loop", "drain", "done"}) =>
        /\ Stream(opts) =
               DottedPairs(expandWildcardPattern(
                               SubSeq(opts.pattern, 1, Len(opts.pattern) - 2)),
                           opts.tlds)
        /\ IsSuffix(iterator, Stream(opts))

----------------------------------------------------------------------------
(* C10 *)

\* C10: in regex mode every candidate that is probed matches the regex.
C10_RegexModeProbesMatches ==
    opts.regex.kind = "regex" =>
        \A i \in 1..Len(tasks) : RegexTest(opts.regex, tasks[i].domain)

----------------------------------------------------------------------------
(* C11 *)

\* C11: when resume is not requested the cache is ignored: a started run
\* has dispatched, as its first probe, the first candidate of the stream that
\* is a valid domain and passes the filters, in the cache file or not.
C11_CacheIgnoredWithoutResume ==
    (~opts.resume /\ pc \in {"loop", "drain", "done"}
        /\ Eligible(Stream(opts)) # <<>>) =>
        /\ Len(tasks) >= 1
        /\ tasks[1].domain = Head(Eligible(Stream(opts)))

----------------------------------------------------------------------------
(* C12 *)

\* C12: a pattern with k wildcards expands to exactly alphabet_size^k
\* labels, all distinct, in odometer order with the literals in place (what
\* has been yielded so far is the beginning of that sequence), and expanding
\* the same pattern again yields the same sequence.
C12_OdometerOrder ==
    gen.state \in {"running", "done"} =>
        /\ IsPrefix(gen.yielded, Odometer(gen.pattern))
        /\ \A i, j \in 1..Len(gen.yielded) :
               i # j => gen.yielded[i] # gen.yielded[j]
        /\ gen.state = "done" =>
               /\ Len(gen.yielded) =
                      Pow(AlphabetSize, Cardinality(Wildcards(gen.pattern)))
               /\ gen.yielded = Odometer(gen.pattern)
               /\ gen.pass = "second" => gen.yielded = gen.first

\* A pattern of two wildcards around a literal has been expanded twice.
C12_Witness ==
    /\ gen.state = "done"
    /\ gen.pass = "second"
    /\ gen.pattern = <<"*", "a", "*">>
    /\ Len(gen.yielded) = AlphabetSize * AlphabetSize

----------------------------------------------------------------------------
(* C13 *)

\* C13: a probe returns at most one outcome, and exactly one once the query
\* or the timer has settled; it is decided by which settled first: the timer
\* gives unknown with error "timeout", a query that ends ENOTFOUND or ENODATA
\* gives available, a query that resolves gives taken, and a query that
\* fails otherwise gives unknown with the error's code.
C13_OutcomeOfTheRace ==
    race.state = "racing" =>
        /\ Len(race.returned) <= 1
        /\ (race.first = "none") <=> (race.returned = <<>>)
        /\ (race.first = "none") <=>
               (race.dns = "pending" /\ race.timer = "pending")
        /\ race.first = "timer" =>
               race.returned = <<[domain |-> race.domain,
                                  available |-> "null", error |-> "timeout"]>>
        /\ (race.first = "dns" /\ race.dns \in {"ENOTFOUND", "ENODATA"}) =>
               race.returned = <<[domain |-> race.domain,
                                  available |-> "true", error |-> "null"]>>
        /\ (race.first = "dns" /\ race.dns = "resolved") =>
               race.returned = <<[domain |-> race.domain,
                                  available |-> "false", error |-> "null"]>>
        /\ (race.first = "dns"
               /\ race.dns \notin {"ENOTFOUND", "ENODATA", "resolved"}) =>
               race.returned = <<[domain |-> race.domain,
                                  available |-> "null", error |-> race.dns]>>

\* The timer fired first and the query answered afterwards.
C13_Witness ==
    /\ race.state = "racing"
    /\ race.first = "timer"
    /\ race.dns = "ENOTFOUND"
    /\ Len(race.returned) = 1

----------------------------------------------------------------------------
(* C14 *)

\* C14: in every state the number of completed probes is at most the number
\* of candidates the scheduler has pulled, and the number of available
\* results is at most the number of completed probes.
C14_CountersOrdered ==
    /\ checked <= totalCandidates
    /\ Len(availableResults) <= checked

\* A done run in which the three counts differ.
C14_Witness ==
    /\ pc = "done"
    /\ 0 < Len(availableResults)
    /\ Len(availableResults) < checked
    /\ checked < totalCandidates

----------------------------------------------------------------------------
(* C15 *)

\* C15: when the run is done, by exhaustion or by quit, no probe is in
\* flight, every dispatched probe has settled and, with caching on, every
\* dispatched candidate has its record in the cache and in the cache file.
C15_DrainBeforeExit ==
    pc = "done" =>
        /\ active = 0
        /\ Unsettled = {}
        /\ checked = Len(tasks)
        /\ opts.useCache =>
               \A i \in 1..Len(tasks) :
                   /\ tasks[i].domain \in DOMAIN cache
                   /\ cache[tasks[i].domain].available = tasks[i].available
                   /\ \E k \in 1..Len(cacheFile.lines) :
                          cacheFile.lines[k] = stringify(cache[tasks[i].domain])

\* A run that was quit with the ceiling's probes in flight and candidates
\* left is done.
C15_Witness ==
    /\ pc = "done"
    /\ quitting
    /\ opts.useCache
    /\ Len(tasks) = MaxConcurrency
    /\ Len(iterator) > 0

----------------------------------------------------------------------------
(* C16 *)

----------------------------------------------------------------------------
(* C17 *)

\* C17: within one run no candidate is dispatched twice, whatever -t lists.
C17_NoDuplicateDispatch ==
    \A i, j \in 1..Len(tasks) : i # j => tasks[i].domain # tasks[j].domain

----------------------------------------------------------------------------
(* C18 *)

\* C18: a run in its loop or awaiting its tasks is eventually done, unless
\* a quit is signalled: it needs none.
C18_TerminatesWithoutQuit ==
    (pc \in {"loop", "drain"}) ~> (pc = "done" \/ quitting)

\* A run is done with no quit and no pause, its stream exhausted, and every
\* candidate that is a valid domain and passes the filters probed.
C18_Witness ==
    /\ pc = "done"
    /\ ~quitting
    /\ ~paused
    /\ run.n = "first"
    /\ iterator = <<>>
    /\ Len(tasks) >= 2
    /\ Len(tasks) = Len(Eligible(Stream(opts)))

----------------------------------------------------------------------------
(* C19 *)

\* C19: the progress line has been written once for every completed probe.
C19_ProgressOnEveryCompletion == progressWrites = checked

----------------------------------------------------------------------------
(* C20 *)

\* C20: the cache a run starts with maps every domain of a parseable line of
\* the cache file to the object of its last parseable line, blank lines and
\* lines that do not parse being passed over; with no file it is empty.
C20_LastParseableWins ==
    (pc \in {"loop", "drain", "done"} /\ checked = 0) =>
        /\ cache = LastParseable(cacheFile)
        /\ ~cacheFile.exists => cache = EmptyMap

\* A run has loaded a file that records a.co twice, differently, with a
\* line that does not parse in between.
C20_Witness ==
    /\ pc = "loop"
    /\ checked = 0
    /\ Len(cacheFile.lines) = 3
    /\ cacheFile.lines[2] = BadLine
    /\ cacheFile.lines[1].kind = "json"
    /\ cacheFile.lines[3].kind = "json"
    /\ HasDomain(cacheFile.lines[1].obj)
    /\ HasDomain(cacheFile.lines[3].obj)
    /\ cacheFile.lines[1] # cacheFile.lines[3]
    /\ cache[aco] = cacheFile.lines[3].obj

----------------------------------------------------------------------------
(* C21 *)

\* A numeric flag is given a value that is no number.
Unparseable(flag) == flag \in DOMAIN argv /\ parseInt(argv[flag]).nan

\* C21: with a regex that does not compile, or a value of -c, -T or
\* --max-length that is no number, the program exits with status 1 at its
\* start: no candidate is generated and no probe is dispatched.
C21_ConfigErrorIsFatal ==
    (\/ opts.regex.kind = "invalid"
     \/ Unparseable("c")
     \/ Unparseable("T")
     \/ Unparseable("maxLength")) =>
        /\ pc \in {"start", "exit1"}
        /\ iterator = <<>>
        /\ totalCandidates = 0
        /\ tasks = <<>>

----------------------------------------------------------------------------
(* C22 *)

\* Where a character stands in the alphabet.
IndexOf(ch) == CHOOSE i \in 1..Len(CHARSET) : CHARSET[i] = ch

\* a comes before b: it is shorter, or as long and smaller at the first
\* place where they differ.
Before(a, b) ==
    \/ Len(a) < Len(b)
    \/ /\ Len(a) = Len(b)
       /\ \E k \in 1..Len(a) :
              /\ IndexOf(a[k]) < IndexOf(b[k])
              /\ \A j \in 1..(k - 1) : a[j] = b[j]

\* Every string of length 1..n over the alphabet.
StringsUpTo(n) == UNION {[1..l -> Range(CHARSET)] : l \in 1..n}

\* C22: brute-force generation with maximum length L yields, for every
\* string of length 1..L over the alphabet exactly once, shorter strings
\* first and strings of one length in alphabet order, that string followed
\* by "." and each TLD in turn; what has been yielded so far is the
\* beginning of that sequence.
C22_LengthMajorLexicographic ==
    ("maxLength" \in DOMAIN gen /\ gen.state \in {"running", "done"}) =>
        LET t == Len(gen.tlds)
            y == gen.yielded
            label(i) == NameOf(y[(i - 1) * t + 1])
            whole == Len(y) \div t
        IN  /\ \A i \in 1..Len(y) :
                   y[i] = label(((i - 1) \div t) + 1) \o <<".">>
                              \o gen.tlds[((i - 1) % t) + 1]
            /\ \A i \in 1..whole : label(i) \in StringsUpTo(gen.maxLength)
            /\ \A i, j \in 1..whole : i < j => Before(label(i), label(j))
            /\ gen.state = "done" =>
                   /\ Len(y) = whole * t
                   /\ {label(i) : i \in 1..whole} = StringsUpTo(gen.maxLength)
                   /\ whole = Cardinality(StringsUpTo(gen.maxLength))

\* All the labels up to the largest length have been yielded under two TLDs.
C22_Witness ==
    /\ "maxLength" \in DOMAIN gen
    /\ gen.state = "done"
    /\ gen.maxLength = MaxLabelLen
    /\ gen.tlds = <<co, ca>>
    /\ Len(gen.yielded) > 0

----------------------------------------------------------------------------
(* C23 *)

\* C23: a step of run() taken while neither paused nor quitting advances the
\* generator only by the candidates the scheduler pulls and counts: the
\* exhaustion test of the loop finds the generator exhausted, or is not
\* reached.  As long as nothing was discarded, every candidate pulled that
\* is a valid domain and passes the filters has been dispatched, once for
\* each time it was pulled at most, or was in the cache; and a run that is
\* done without a quit has exhausted its generator.
C23_NothingDiscardedUnpaused ==
    /\ [][(~paused /\ ~quitting /\ pc \in {"start", "loop"}) =>
            (IF pc = "start" THEN Len(Stream(opts)) ELSE Len(iterator))
                - Len(iterator')
            = totalCandidates'
                - (IF pc = "start" THEN 0 ELSE totalCandidates)]_vars
    /\ []((pc \in {"loop", "drain", "done"}
           /\ totalCandidates = Len(Stream(opts)) - Len(iterator)) =>
            \A k \in 1..totalCandidates :
                LET d == Stream(opts)[k]
                IN  (isValidDomain(d) /\ passesFilters(d, opts.filters)) =>
                        /\ Cardinality({i \in 1..Len(tasks) :
                                           tasks[i].domain = d})
                               <= Cardinality({j \in 1..totalCandidates :
                                                  Stream(opts)[j] = d})
                        /\ Probed(d) \/ (opts.useCache /\ d \in DOMAIN cache))
    /\ []((pc = "done" /\ ~quitting) => iterator = <<>>)

\* A run with one slot is done without a quit: every candidate was pulled
\* by the scheduler, two of them were probed one after the other, the
\* others were skipped.
C23_Witness ==
    /\ pc = "done"
    /\ ~quitting
    /\ ~paused
    /\ opts.concurrency = 1
    /\ totalCandidates = Len(Stream(opts))
    /\ Len(tasks) = 2
    /\ totalCandidates > Len(tasks)

----------------------------------------------------------------------------
(* C24 *)

\* C24: with caching on, a completion appends one line to the cache file and
\* sets the entry of its candidate in the cache in the same step; the file
\* only grows; and in every state of a started run the cache is what the
\* file records (the candidates loaded at the start and those appended
\* since), every settled probe's candidate among them.
C24_CacheMirrorsLog ==
    /\ []((opts.useCache /\ pc \in {"loop", "drain", "done"}) =>
            /\ cache = LastParseable(cacheFile)
            /\ \A i \in 1..Len(tasks) :
                   tasks[i].settled => tasks[i].domain \in DOMAIN cache)
    /\ [][/\ IsPrefix(cacheFile.lines, cacheFile'.lines)
          /\ cacheFile.exists => cacheFile'.exists]_vars
    /\ [][(opts.useCache /\ checked' = checked + 1) =>
            LET n == Len(cacheFile'.lines)
            IN  /\ n = Len(cacheFile.lines) + 1
                /\ cacheFile'.lines[n].kind = "json"
                /\ \E i \in Unsettled :
                       /\ tasks'[i].settled
                       /\ cacheFile'.lines[n].obj.domain = tasks[i].domain
                       /\ cache' = MapSet(cache, tasks[i].domain,
                                          cacheFile'.lines[n].obj)]_vars

\* A run that started from a file with a record of a.co and a line that
\* does not parse has appended the record of another candidate.
C24_Witness ==
    /\ checked = 1
    /\ Len(cacheFile.lines) = MaxLines + 1
    /\ \E k \in 1..MaxLines : cacheFile.lines[k] = BadLine
    /\ aco \in DOMAIN cache
    /\ ~Probed(aco)
    /\ tasks[1].settled
    /\ tasks[1].domain \in DOMAIN cache

====
